---- MODULE Spec2Model ----
(***************************************************************************)
(* Model of src/main.py: the in-memory Store of users and tasks and the   *)
(* FastAPI handlers in front of it.                                        *)
(*                                                                         *)
(* Python dicts keep insertion order, so `users` and `_tasks` are modelled *)
(* as sequences of records in insertion order.  Python's None is modelled  *)
(* by the string None for str-typed fields and by the empty tuple for the  *)
(* optional integer query parameter (<<x>> is the integer x).              *)
(***************************************************************************)
EXTENDS Integers, Sequences, FiniteSets, TLC

\* ---------------------------------------------------------------- bounds
MaxTasks == 2
MaxUsers == 2
MaxClock == 1
MaxCalls == 3
NumCallers == 2
MaxOps == 5

\* ---------------------------------------------------------------- inputs
None == "None"
TaskStatus == {"queued", "done", "cancelled"}
Usernames == {"10", "20"}
Titles == {"a"}
Descriptions == {None}
PatchFields == <<"title", "description", "status">>
UserIds == 0 .. MaxUsers
TaskIds == 0 .. MaxTasks
ConcOwnerIds == {1}
ConcTaskIds == {1}
OwnerFilters == {<<>>} \cup {<<x>> : x \in UserIds}

\* A TaskPatch dto: the three attributes (None by default) and the set of
\* fields the request body named (pydantic's model_fields_set).
Dto(fs, t, d, s) == [fields_set |-> fs, title |-> t, description |-> d, status |-> s]

PatchDtos ==
    { Dto({}, None, None, None),
      Dto({"title"}, "b", None, None),
      Dto({"description"}, None, "d", None),
      Dto({"status"}, None, None, "done"),
      Dto({"status"}, None, None, "queued"),
      Dto({"status"}, None, None, "cancelled"),
      Dto({"status"}, None, None, None),
      Dto({"title", "status"}, "b", None, "done") }

VARIABLES store, clock, last, hist, locked, pc, loc, ser, calls

vars == <<store, clock, last, hist, locked, pc, loc, ser, calls>>

\* ------------------------------------------------------------ sequences
RECURSIVE IndexOf(_, _, _)
\* position of the entry with the given id in an insertion-ordered dict, 0 if absent
IndexOf(seq, id, i) ==
    IF i > Len(seq) THEN 0
    ELSE IF seq[i].id = id THEN i
    ELSE IndexOf(seq, id, i + 1)

Has(seq, id) == IndexOf(seq, id, 1) # 0

Lookup(seq, id) == seq[IndexOf(seq, id, 1)]

\* dict[key] = value: replaces in place when the key exists, appends otherwise
Put(seq, rec) ==
    IF Has(seq, rec.id)
    THEN [seq EXCEPT ![IndexOf(seq, rec.id, 1)] = rec]
    ELSE Append(seq, rec)

\* dict.pop(key)
Pop(seq, id) ==
    LET i == IndexOf(seq, id, 1)
    IN  SubSeq(seq, 1, i - 1) \o SubSeq(seq, i + 1, Len(seq))

\* ---------------------------------------------------------------- Store
StoreInit == [users |-> <<>>, tasks |-> <<>>, task_id_seq |-> 0, user_id |-> 0]

Outcome(s, exc, ret) == [store |-> s, exc |-> exc, ret |-> ret]

\* the task dict built by create_task
NewTask(id, owner_id, title, description, now) ==
    [id |-> id, owner_id |-> owner_id, title |-> title,
     description |-> description, status |-> "queued",
     created_at |-> now, updated_at |-> now]

\* create_task numbering by len(self._tasks) + 1 instead of the counter
Store_create_task_reused_id(s, owner_id, title, description, now) ==
    IF ~Has(s.users, owner_id)
    THEN Outcome(s, "KeyError", <<>>)
    ELSE LET seq == Len(s.tasks) + 1
             task == NewTask(seq, owner_id, title, description, now)
         IN  Outcome([s EXCEPT !.task_id_seq = seq, !.tasks = Put(s.tasks, task)],
                     "none", <<task>>)

\* create_task advancing the counter before the owner check
Store_create_task_counts_first(s, owner_id, title, description, now) ==
    LET seq == s.task_id_seq + 1
        task == NewTask(seq, owner_id, title, description, now)
    IN  IF ~Has(s.users, owner_id)
        THEN Outcome([s EXCEPT !.task_id_seq = seq], "KeyError", <<>>)
        ELSE Outcome([s EXCEPT !.task_id_seq = seq, !.tasks = Put(s.tasks, task)],
                     "none", <<task>>)

Store_create_task(s, owner_id, title, description, now) ==
    IF ~Has(s.users, owner_id)
    THEN Outcome(s, "KeyError", <<>>)
    ELSE LET seq == s.task_id_seq + 1
             task == NewTask(seq, owner_id, title, description, now)
         IN  Outcome([s EXCEPT !.task_id_seq = seq, !.tasks = Put(s.tasks, task)],
                     "none", <<task>>)

\* list_tasks testing `if owner_id:` instead of `is not None`
Store_list_tasks_truthy(s, owner_id) ==
    LET tasks == s.tasks
    IN  IF owner_id # <<>> /\ owner_id # <<0>>
        THEN Outcome(s, "none", SelectSeq(tasks, LAMBDA task : task.owner_id = owner_id[1]))
        ELSE Outcome(s, "none", tasks)

Store_list_tasks(s, owner_id) ==
    LET tasks == s.tasks
    IN  IF owner_id # <<>>
        THEN Outcome(s, "none", SelectSeq(tasks, LAMBDA task : task.owner_id = owner_id[1]))
        ELSE Outcome(s, "none", tasks)

Store_get_task(s, task_id) ==
    IF Has(s.tasks, task_id)
    THEN Outcome(s, "none", <<Lookup(s.tasks, task_id)>>)
    ELSE Outcome(s, "none", <<>>)

\* the loop of patch_task writing patch.get(k) for every k
RECURSIVE ApplyPatch_every_field(_, _, _)
ApplyPatch_every_field(task, patch, i) ==
    IF i > Len(PatchFields) THEN task
    ELSE LET k == PatchFields[i]
         IN  ApplyPatch_every_field([task EXCEPT ![k] = patch.val[k]], patch, i + 1)

\* the loop of patch_task over ("title", "description", "status")
RECURSIVE ApplyPatch(_, _, _)
ApplyPatch(task, patch, i) ==
    IF i > Len(PatchFields) THEN task
    ELSE LET k == PatchFields[i]
         IN  ApplyPatch(IF k \in patch.keys THEN [task EXCEPT ![k] = patch.val[k]] ELSE task,
                        patch, i + 1)

Store_patch_task(s, task_id, patch, now) ==
    IF ~Has(s.tasks, task_id)
    THEN Outcome(s, "KeyError", <<>>)
    ELSE LET task == [ApplyPatch(Lookup(s.tasks, task_id), patch, 1) EXCEPT !.updated_at = now]
         IN  Outcome([s EXCEPT !.tasks = Put(s.tasks, task)], "none", <<task>>)

\* delete_task removing the most recent task (popitem) instead of pop(task_id)
Store_delete_task_popitem(s, task_id) ==
    IF ~Has(s.tasks, task_id)
    THEN Outcome(s, "KeyError", <<>>)
    ELSE Outcome([s EXCEPT !.tasks = SubSeq(s.tasks, 1, Len(s.tasks) - 1)], "none", <<>>)

Store_delete_task(s, task_id) ==
    IF ~Has(s.tasks, task_id)
    THEN Outcome(s, "KeyError", <<>>)
    ELSE Outcome([s EXCEPT !.tasks = Pop(s.tasks, task_id)], "none", <<>>)

CancelPatch == [keys |-> {"status"},
                val |-> [title |-> None, description |-> None, status |-> "cancelled"]]

\* cancel_task returning an already cancelled task as it is
Store_cancel_task_once(s, task_id, now) ==
    IF Has(s.tasks, task_id) /\ Lookup(s.tasks, task_id).status = "cancelled"
    THEN Outcome(s, "none", <<Lookup(s.tasks, task_id)>>)
    ELSE Store_patch_task(s, task_id, CancelPatch, now)

Store_cancel_task(s, task_id, now) == Store_patch_task(s, task_id, CancelPatch, now)

\* create_user without the scan for the username
Store_create_user_unchecked(s, username) ==
    LET uid == s.user_id + 1
        user == [id |-> uid, username |-> username]
    IN  Outcome([s EXCEPT !.user_id = uid, !.users = Put(s.users, user)], "none", <<user>>)

Store_create_user(s, username) ==
    IF \E i \in 1 .. Len(s.users) : s.users[i].username = username
    THEN Outcome(s, "ValueError", <<>>)
    ELSE LET uid == s.user_id + 1
             user == [id |-> uid, username |-> username]
         IN  Outcome([s EXCEPT !.user_id = uid, !.users = Put(s.users, user)],
                     "none", <<user>>)

Store_list_users(s) == Outcome(s, "none", s.users)

\* -------------------------------------------------------------- handlers
\* response_model=TaskOut: title must be a str and status one of TaskStatus
TaskOut(task) == task.title # None /\ task.status \in TaskStatus

\* serialisation of the handler's return value under its response_model
Respond(o, ok_code) ==
    [store |-> o.store, exc |-> o.exc, ret |-> o.ret,
     code |-> IF \A i \in 1 .. Len(o.ret) : TaskOut(o.ret[i]) THEN ok_code ELSE 500]

Raise(o, code) == [store |-> o.store, exc |-> o.exc, ret |-> o.ret, code |-> code]

\* dto.model_dump(exclude_unset=True)
model_dump(dto) ==
    [keys |-> dto.fields_set,
     val |-> [title |-> dto.title, description |-> dto.description, status |-> dto.status]]

Handler_list_users(s) == Raise(Store_list_users(s), 200)

Handler_create_user(s, username) ==
    LET o == Store_create_user(s, username)
    IN  IF o.exc = "ValueError" THEN Raise(o, 409) ELSE Raise(o, 201)

Handler_list_tasks(s, owner_id) == Respond(Store_list_tasks(s, owner_id), 200)

\* no try/except: an exception of the Store becomes the framework's 500
Handler_create_task(s, owner_id, title, description, now) ==
    LET o == Store_create_task(s, owner_id, title, description, now)
    IN  IF o.exc # "none" THEN Raise(o, 500) ELSE Respond(o, 201)

Handler_get_task(s, task_id) ==
    LET o == Store_get_task(s, task_id)
    IN  IF o.ret = <<>> THEN Raise(o, 404) ELSE Respond(o, 200)

Handler_patch_task(s, task_id, dto, now) ==
    LET o == Store_patch_task(s, task_id, model_dump(dto), now)
    IN  IF o.exc = "KeyError" THEN Raise(o, 404) ELSE Respond(o, 200)

Handler_delete_task(s, task_id) ==
    LET o == Store_delete_task(s, task_id)
    IN  IF o.exc = "KeyError" THEN Raise(o, 404) ELSE Raise(o, 204)

Handler_cancel_task(s, task_id, now) ==
    LET o == Store_cancel_task(s, task_id, now)
    IN  IF o.exc = "KeyError" THEN Raise(o, 404) ELSE Respond(o, 200)

\* ------------------------------------------------------- sequential spec
NoDto == Dto({}, None, None, None)

\* the last request served and its response
Last(op, id, owner, username, dto, before, r) ==
    [op |-> op, id |-> id, owner |-> owner, username |-> username, dto |-> dto,
     before |-> before, exc |-> r.exc, code |-> r.code, ret |-> r.ret]

HistInit == [n |-> 0, tasksCreated |-> 0, usersCreated |-> 0, deleted |-> {}]

Procs == 1 .. NumCallers

\* a caller's frame: the call, whether the lock was held when it was made,
\* the local dict of the method, and the pending exception and return value
Frame(op, id, username, waited) ==
    [op |-> op, id |-> id, username |-> username, waited |-> waited,
     local |-> <<>>, exc |-> "none", ret |-> <<>>]

ConcInit ==
    /\ locked = FALSE
    /\ pc = [p \in Procs |-> "idle"]
    /\ loc = [p \in Procs |-> Frame("none", 0, None, FALSE)]
    /\ ser = [store |-> StoreInit, log |-> <<>>]
    /\ calls = 0

Init ==
    /\ store = StoreInit
    /\ clock = 0
    /\ last = [op |-> "init", id |-> 0, owner |-> <<>>, username |-> None, dto |-> NoDto,
               before |-> <<>>, exc |-> "none", code |-> 0, ret |-> <<>>]
    /\ hist = HistInit
    /\ ConcInit

concVars == <<locked, pc, loc, ser, calls>>

\* now_utc(): the wall clock, which advances between requests
Tick ==
    /\ clock < MaxClock
    /\ clock' = clock + 1
    /\ UNCHANGED <<store, last, hist, concVars>>

TaskOps == {"get_task", "patch_task", "delete_task", "cancel_task"}

\* one request: the handler runs to completion; `last` keeps the request, the
\* addressed task as it was before, and the response
Serve(op, id, owner, username, dto, r) ==
    /\ hist.n < MaxOps
    /\ r.store.task_id_seq <= MaxTasks
    /\ r.store.user_id <= MaxUsers
    /\ store' = r.store
    /\ last' = Last(op, id, owner, username, dto,
                     IF op \in TaskOps /\ Has(store.tasks, id)
                     THEN <<Lookup(store.tasks, id)>> ELSE <<>>, r)
    /\ hist' = [n |-> hist.n + 1, tasksCreated |-> hist.tasksCreated
                                 + (IF op = "create_task" /\ r.exc = "none" THEN 1 ELSE 0),
                usersCreated |-> hist.usersCreated
                                 + (IF op = "create_user" /\ r.exc = "none" THEN 1 ELSE 0),
                deleted |-> hist.deleted
                            \cup (IF op = "delete_task" /\ r.exc = "none" THEN {id} ELSE {})]
    /\ UNCHANGED <<clock, concVars>>

ListUsers == Serve("list_users", 0, <<>>, None, NoDto, Handler_list_users(store))

CreateUser ==
    \E username \in Usernames :
        Serve("create_user", 0, <<>>, username, NoDto, Handler_create_user(store, username))

ListTasks ==
    \E owner_id \in OwnerFilters :
        Serve("list_tasks", 0, owner_id, None, NoDto, Handler_list_tasks(store, owner_id))

CreateTask ==
    \E owner_id \in UserIds, title \in Titles, description \in Descriptions :
        Serve("create_task", owner_id, <<>>, None, NoDto,
              Handler_create_task(store, owner_id, title, description, clock))

GetTask ==
    \E task_id \in TaskIds :
        Serve("get_task", task_id, <<>>, None, NoDto, Handler_get_task(store, task_id))

PatchTask ==
    \E task_id \in TaskIds, dto \in PatchDtos :
        Serve("patch_task", task_id, <<>>, None, dto,
              Handler_patch_task(store, task_id, dto, clock))

DeleteTask ==
    \E task_id \in TaskIds :
        Serve("delete_task", task_id, <<>>, None, NoDto, Handler_delete_task(store, task_id))

CancelTask ==
    \E task_id \in TaskIds :
        Serve("cancel_task", task_id, <<>>, None, NoDto,
              Handler_cancel_task(store, task_id, clock))

Next ==
    \/ Tick
    \/ ListUsers
    \/ CreateUser
    \/ ListTasks
    \/ CreateTask
    \/ GetTask
    \/ PatchTask
    \/ DeleteTask
    \/ CancelTask

Spec == Init /\ [][Next]_vars

\* ------------------------------------------------------- concurrent spec
\* Callers run Store methods as coroutines.  Each method body is split into
\* its statements, and any caller may take the next step, so the model allows
\* every interleaving that preemptive scheduling would; asyncio's cooperative
\* scheduling allows only a subset of them.
seqVars == <<clock, last, hist>>

InCS == {"ct_check", "ct_incr", "ct_build", "ct_store",
         "cu_check", "cu_incr", "cu_build", "cu_store",
         "dt_check", "dt_pop", "pt_get", "pt_apply", "release"}

Goto(p, label) == pc' = [pc EXCEPT ![p] = label]

\* a caller invokes a Store method and reaches `async with self._lock`
Call(p) ==
    /\ pc[p] = "idle"
    /\ calls < MaxCalls
    /\ calls' = calls + 1
    /\ \E op \in {"create_task", "create_user", "delete_task", "cancel_task"} :
         \/ /\ op = "create_user"
            /\ \E username \in Usernames : loc' = [loc EXCEPT ![p] = Frame(op, 0, username, locked)]
         \/ /\ op = "create_task"
            /\ \E owner_id \in ConcOwnerIds : loc' = [loc EXCEPT ![p] = Frame(op, owner_id, None, locked)]
         \/ /\ op \in {"delete_task", "cancel_task"}
            /\ \E task_id \in ConcTaskIds : loc' = [loc EXCEPT ![p] = Frame(op, task_id, None, locked)]
    /\ Goto(p, "acquire")
    /\ UNCHANGED <<store, locked, ser, seqVars>>

Entry(op) ==
    CASE op = "create_task" -> "ct_check"
      [] op = "create_user" -> "cu_check"
      [] op = "delete_task" -> "dt_check"
      [] op = "cancel_task" -> "pt_get"

\* asyncio.Lock.acquire() with no regard for the lock's state
AcquireNoWait(p) ==
    /\ pc[p] = "acquire"
    /\ locked' = TRUE
    /\ Goto(p, Entry(loc[p].op))
    /\ UNCHANGED <<store, loc, ser, calls, seqVars>>

\* asyncio.Lock.acquire(): proceeds only when the lock is not held
Acquire(p) ==
    /\ pc[p] = "acquire"
    /\ ~locked
    /\ locked' = TRUE
    /\ Goto(p, Entry(loc[p].op))
    /\ UNCHANGED <<store, loc, ser, calls, seqVars>>

RaiseIn(p, exc) ==
    /\ loc' = [loc EXCEPT ![p].exc = exc]
    /\ Goto(p, "release")

\* create_task, statement by statement
CtCheck(p) ==
    /\ pc[p] = "ct_check"
    /\ IF ~Has(store.users, loc[p].id)
       THEN RaiseIn(p, "KeyError")
       ELSE Goto(p, "ct_incr") /\ UNCHANGED loc
    /\ UNCHANGED <<store, locked, ser, calls, seqVars>>

CtIncr(p) ==
    /\ pc[p] = "ct_incr"
    /\ store' = [store EXCEPT !.task_id_seq = @ + 1]
    /\ Goto(p, "ct_build")
    /\ UNCHANGED <<loc, locked, ser, calls, seqVars>>

CtBuild(p) ==
    /\ pc[p] = "ct_build"
    /\ loc' = [loc EXCEPT ![p].local =
                 <<NewTask(store.task_id_seq, loc[p].id, "a", None, clock)>>]
    /\ Goto(p, "ct_store")
    /\ UNCHANGED <<store, locked, ser, calls, seqVars>>

CtStore(p) ==
    /\ pc[p] = "ct_store"
    /\ store' = [store EXCEPT !.tasks = Put(@, loc[p].local[1])]
    /\ loc' = [loc EXCEPT ![p].ret = loc[p].local]
    /\ Goto(p, "release")
    /\ UNCHANGED <<locked, ser, calls, seqVars>>

\* create_user, statement by statement
CuCheck(p) ==
    /\ pc[p] = "cu_check"
    /\ IF \E i \in 1 .. Len(store.users) : store.users[i].username = loc[p].username
       THEN RaiseIn(p, "ValueError")
       ELSE Goto(p, "cu_incr") /\ UNCHANGED loc
    /\ UNCHANGED <<store, locked, ser, calls, seqVars>>

CuIncr(p) ==
    /\ pc[p] = "cu_incr"
    /\ store' = [store EXCEPT !.user_id = @ + 1]
    /\ Goto(p, "cu_build")
    /\ UNCHANGED <<loc, locked, ser, calls, seqVars>>

CuBuild(p) ==
    /\ pc[p] = "cu_build"
    /\ loc' = [loc EXCEPT ![p].local = <<[id |-> store.user_id, username |-> loc[p].username]>>]
    /\ Goto(p, "cu_store")
    /\ UNCHANGED <<store, locked, ser, calls, seqVars>>

CuStore(p) ==
    /\ pc[p] = "cu_store"
    /\ store' = [store EXCEPT !.users = Put(@, loc[p].local[1])]
    /\ loc' = [loc EXCEPT ![p].ret = loc[p].local]
    /\ Goto(p, "release")
    /\ UNCHANGED <<locked, ser, calls, seqVars>>

\* delete_task, statement by statement
DtCheck(p) ==
    /\ pc[p] = "dt_check"
    /\ IF ~Has(store.tasks, loc[p].id)
       THEN RaiseIn(p, "KeyError")
       ELSE Goto(p, "dt_pop") /\ UNCHANGED loc
    /\ UNCHANGED <<store, locked, ser, calls, seqVars>>

\* dict.pop(key) raises KeyError when the key has gone meanwhile
DtPop(p) ==
    /\ pc[p] = "dt_pop"
    /\ IF Has(store.tasks, loc[p].id)
       THEN /\ store' = [store EXCEPT !.tasks = Pop(@, loc[p].id)]
            /\ UNCHANGED loc
       ELSE /\ loc' = [loc EXCEPT ![p].exc = "KeyError"]
            /\ UNCHANGED store
    /\ Goto(p, "release")
    /\ UNCHANGED <<locked, ser, calls, seqVars>>

\* cancel_task = patch_task(task_id, {"status": "cancelled"}), statement by statement
PtGet(p) ==
    /\ pc[p] = "pt_get"
    /\ IF ~Has(store.tasks, loc[p].id)
       THEN RaiseIn(p, "KeyError")
       ELSE Goto(p, "pt_apply") /\ UNCHANGED loc
    /\ UNCHANGED <<store, locked, ser, calls, seqVars>>

\* `task` aliases the stored dict: the writes land in the store while the
\* dict is still in it
PtApply(p) ==
    /\ pc[p] = "pt_apply"
    /\ IF Has(store.tasks, loc[p].id)
       THEN LET task == [ApplyPatch(Lookup(store.tasks, loc[p].id), CancelPatch, 1)
                           EXCEPT !.updated_at = clock]
            IN  /\ store' = [store EXCEPT !.tasks = Put(@, task)]
                /\ loc' = [loc EXCEPT ![p].ret = <<task>>]
       ELSE UNCHANGED <<store, loc>>
    /\ Goto(p, "release")
    /\ UNCHANGED <<locked, ser, calls, seqVars>>

\* the same call run on its own against a store
Serial(s, f, now) ==
    CASE f.op = "create_task" -> Store_create_task(s, f.id, "a", None, now)
      [] f.op = "create_user" -> Store_create_user(s, f.username)
      [] f.op = "delete_task" -> Store_delete_task(s, f.id)
      [] f.op = "cancel_task" -> Store_cancel_task(s, f.id, now)

\* __aexit__ releases the lock and the call returns or raises; the call is
\* logged beside the outcome of the same call in the serial run so far
Release(p) ==
    /\ pc[p] = "release"
    /\ locked' = FALSE
    /\ LET o == Serial(ser.store, loc[p], clock)
       IN  ser' = [store |-> o.store,
                   log |-> Append(ser.log,
                                  [op |-> loc[p].op, id |-> loc[p].id,
                                   username |-> loc[p].username, waited |-> loc[p].waited,
                                   exc |-> loc[p].exc, ret |-> loc[p].ret,
                                   serial_exc |-> o.exc, serial_ret |-> o.ret])]
    /\ loc' = [loc EXCEPT ![p] = Frame("none", 0, None, FALSE)]
    /\ Goto(p, "idle")
    /\ UNCHANGED <<store, calls, seqVars>>

ConcNext ==
    \E p \in Procs :
        \/ Call(p)
        \/ Acquire(p)
        \/ CtCheck(p)
        \/ CtIncr(p)
        \/ CtBuild(p)
        \/ CtStore(p)
        \/ CuCheck(p)
        \/ CuIncr(p)
        \/ CuBuild(p)
        \/ CuStore(p)
        \/ DtCheck(p)
        \/ DtPop(p)
        \/ PtGet(p)
        \/ PtApply(p)
        \/ Release(p)

ConcSpec == Init /\ [][ConcNext]_vars

\* ------------------------------------------------------------ properties
\* a step that serves one request
Served == hist'.n = hist.n + 1

Ids(seq) == {seq[i].id : i \in 1 .. Len(seq)}

\* every entry of `before` other than the one with the given id is, at the
\* same position, in `after`
OthersKept(before, after, id) ==
    /\ Len(after) = Len(before)
    /\ \A i \in 1 .. Len(before) : before[i].id # id => after[i] = before[i]

\* C1: POST /tasks with an owner_id that is no existing user's id answers 404
\* and creates no task.
C1_UnknownOwnerIs404 ==
    (last.op = "create_task" /\ ~Has(store.users, last.id))
        => /\ last.code = 404
           /\ last.ret = <<>>
           /\ store.task_id_seq = hist.tasksCreated

\* C2: the status of every stored task is one of queued, done, cancelled.
C2_StatusInEnumeration ==
    \A i \in 1 .. Len(store.tasks) : store.tasks[i].status \in TaskStatus

\* C3: the k-th successful create_task returns id k and the k-th successful
\* create_user returns id k; the id was never handed out before (it is the id
\* of no stored and of no deleted task), and a failed request consumes no id.
C3_SequentialIds ==
    [][Served =>
        /\ (last'.op = "create_task" /\ last'.exc = "none") =>
              /\ Len(last'.ret) = 1
              /\ last'.ret[1].id = hist.tasksCreated + 1
              /\ last'.ret[1].id \notin Ids(store.tasks) \cup hist.deleted
              /\ last'.ret[1].id \in Ids(store'.tasks)
        /\ (last'.op = "create_user" /\ last'.exc = "none") =>
              /\ Len(last'.ret) = 1
              /\ last'.ret[1].id = hist.usersCreated + 1
              /\ last'.ret[1].id \notin Ids(store.users)
              /\ last'.ret[1].id \in Ids(store'.users)
        /\ last'.exc # "none" =>
              /\ store'.task_id_seq = store.task_id_seq
              /\ store'.user_id = store.user_id
    ]_vars

\* C3 witness: task id 2 is handed out after task 1 was deleted.
C3_Witness ==
    /\ last.op = "create_task"
    /\ last.exc = "none"
    /\ last.ret[1].id = 2
    /\ 1 \in hist.deleted

\* C4: create_user fails with the conflict error (409) exactly when a user
\* with that username exists, and then adds no user; otherwise it adds exactly
\* one; stored usernames are pairwise distinct.
C4_UniqueUsernames ==
    [][(Served /\ last'.op = "create_user") =>
        LET taken == \E i \in 1 .. Len(store.users) : store.users[i].username = last'.username
        IN  /\ taken => /\ last'.exc = "ValueError"
                        /\ last'.code = 409
                        /\ Len(store'.users) = Len(store.users)
            /\ ~taken => /\ last'.exc = "none"
                         /\ last'.code = 201
                         /\ Len(store'.users) = Len(store.users) + 1
                         /\ last'.ret[1].username = last'.username
            /\ \A i, j \in 1 .. Len(store'.users) :
                  store'.users[i].username = store'.users[j].username => i = j
    ]_vars

\* C4 witness: the second create_user with the one stored username was refused.
C4_Witness ==
    /\ last.op = "create_user"
    /\ last.code = 409
    /\ hist.usersCreated = 1
    /\ Len(store.users) = 1
    /\ store.users[1].username = last.username

\* C5: a successful patch_task sets the fields present in the patch, refreshes
\* updated_at, and leaves the task's other fields, every other task, the users
\* and both counters as they were.
C5_PatchFrame ==
    [][(Served /\ last'.op = "patch_task" /\ last'.exc = "none") =>
        /\ Has(store.tasks, last'.id)
        /\ Has(store'.tasks, last'.id)
        /\ LET old == Lookup(store.tasks, last'.id)
               new == Lookup(store'.tasks, last'.id)
           IN  /\ \A k \in {"title", "description", "status"} :
                     new[k] = IF k \in last'.dto.fields_set THEN last'.dto[k] ELSE old[k]
               /\ new.updated_at = clock
               /\ \A k \in {"id", "owner_id", "created_at"} : new[k] = old[k]
               /\ last'.ret = <<new>>
        /\ OthersKept(store.tasks, store'.tasks, last'.id)
        /\ store'.users = store.users
        /\ store'.task_id_seq = store.task_id_seq
        /\ store'.user_id = store.user_id
    ]_vars

\* C5 witness: a title-only patch of one of two stored tasks, at a later time
\* than the task was last written, the task having a status other than the
\* initial one.
C5_Witness ==
    /\ last.op = "patch_task"
    /\ last.exc = "none"
    /\ last.dto.fields_set = {"title"}
    /\ Len(store.tasks) = 2
    /\ last.before[1].title # last.ret[1].title
    /\ last.before[1].status = "done"
    /\ last.before[1].updated_at < last.ret[1].updated_at

\* C6: a Store operation that fails (create_user with a taken username,
\* create_task with an unknown owner, patch/cancel/delete of an unknown task)
\* raises and leaves the whole store as it was.
C6_FailureChangesNothing ==
    [][Served =>
        LET fails ==
              \/ /\ last'.op = "create_user"
                 /\ \E i \in 1 .. Len(store.users) : store.users[i].username = last'.username
              \/ /\ last'.op = "create_task"
                 /\ last'.id \notin Ids(store.users)
              \/ /\ last'.op \in {"patch_task", "cancel_task", "delete_task"}
                 /\ last'.id \notin Ids(store.tasks)
        IN  /\ fails => last'.exc # "none"
            /\ last'.exc # "none" => (fails /\ store' = store)
    ]_vars

\* C6 witness: create_task with an unknown owner failed in a store that holds
\* a user and a task.
C6_Witness ==
    /\ last.op = "create_task"
    /\ last.exc = "KeyError"
    /\ Len(store.users) >= 1
    /\ Len(store.tasks) >= 1

\* C7: list_tasks raises nothing and changes nothing; without a filter it
\* returns every stored task in creation order (ascending id), and with owner
\* id X, for every X, exactly the tasks of the unfiltered list whose owner_id
\* is X, in the same order.
C7_ListFilter ==
    [][(Served /\ last'.op = "list_tasks") =>
        /\ last'.exc = "none"
        /\ store' = store
        /\ LET all == Store_list_tasks(store, <<>>).ret
           IN  /\ Ids(all) = Ids(store.tasks)
               /\ Len(all) = Cardinality(Ids(store.tasks))
               /\ \A i, j \in 1 .. Len(all) : i < j => all[i].id < all[j].id
               /\ \A i \in 1 .. Len(all) : all[i] = Lookup(store.tasks, all[i].id)
               /\ \A X \in UserIds :
                     Store_list_tasks(store, <<X>>).ret
                         = SelectSeq(all, LAMBDA t : t.owner_id = X)
               /\ last'.ret = IF last'.owner = <<>> THEN all
                              ELSE SelectSeq(all, LAMBDA t : t.owner_id = last'.owner[1])
    ]_vars

\* C7 witness: two tasks of different owners are stored and the list filtered
\* by the second owner holds one of them.
C7_Witness ==
    /\ last.op = "list_tasks"
    /\ last.owner = <<2>>
    /\ Len(store.tasks) = 2
    /\ Len(last.ret) = 1
    /\ store.tasks[1].owner_id = 1

\* C9: a task deleted once stays absent: GET, PATCH, cancel and DELETE of its
\* id answer 404 and it is in no list; delete_task removes that task only.
C9_DeletedStaysDeleted ==
    [][Served =>
        /\ \A id \in hist'.deleted :
              /\ id \notin Ids(store'.tasks)
              /\ Store_get_task(store', id).ret = <<>>
              /\ Handler_get_task(store', id).code = 404
              /\ \A dto \in PatchDtos : Handler_patch_task(store', id, dto, clock).code = 404
              /\ Handler_cancel_task(store', id, clock).code = 404
              /\ Handler_delete_task(store', id).code = 404
              /\ id \notin Ids(Store_list_tasks(store', <<>>).ret)
        /\ (last'.op = "delete_task" /\ last'.exc = "none") =>
              /\ last'.code = 204
              /\ Has(store.tasks, last'.id)
              /\ store'.tasks = SelectSeq(store.tasks, LAMBDA t : t.id # last'.id)
              /\ store'.users = store.users
              /\ store'.task_id_seq = store.task_id_seq
              /\ store'.user_id = store.user_id
    ]_vars

\* C9 witness: GET of a deleted task answers 404 after a later task was created.
C9_Witness ==
    /\ last.op = "get_task"
    /\ last.id \in hist.deleted
    /\ last.code = 404
    /\ Len(store.tasks) = 1

\* C10: cancel_task(id) has the outcome and the effect of
\* patch_task(id, {status: cancelled}): for a stored task, whatever its status,
\* status becomes cancelled, updated_at is refreshed and nothing else changes;
\* for an unknown id it fails with the same not-found error and changes nothing.
C10_CancelIsPatch ==
    [][(Served /\ last'.op = "cancel_task") =>
        LET r == Handler_patch_task(store, last'.id, Dto({"status"}, None, None, "cancelled"), clock)
        IN  /\ store' = r.store
            /\ last'.exc = r.exc
            /\ last'.code = r.code
            /\ last'.ret = r.ret
            /\ Has(store.tasks, last'.id) =>
                  /\ last'.exc = "none"
                  /\ Lookup(store'.tasks, last'.id)
                       = [Lookup(store.tasks, last'.id) EXCEPT !.status = "cancelled",
                                                                !.updated_at = clock]
                  /\ store' = [store EXCEPT !.tasks = store'.tasks]
                  /\ OthersKept(store.tasks, store'.tasks, last'.id)
            /\ ~Has(store.tasks, last'.id) =>
                  /\ last'.exc = "KeyError"
                  /\ last'.code = 404
                  /\ store' = store
    ]_vars

\* C10 witness: a task that was already cancelled is cancelled again at a
\* later time.
C10_Witness ==
    /\ last.op = "cancel_task"
    /\ last.exc = "none"
    /\ last.before[1].status = "cancelled"
    /\ last.before[1].updated_at < last.ret[1].updated_at

\* C10 witness of the other cases: cancel of a done task.
C10_WitnessDone ==
    /\ last.op = "cancel_task"
    /\ last.before # <<>>
    /\ last.before[1].status = "done"

\* C8: at most one caller is inside the critical section; whenever the lock
\* is free the store is the store of the serial run of the completed calls in
\* completion order, and every completed call returned or raised what it does
\* in that serial run; successful create_task calls got distinct ids and of
\* the create_user calls with one username exactly the first succeeded.
C8_Serializable ==
    /\ Cardinality({p \in Procs : pc[p] \in InCS}) <= 1
    /\ (\E p \in Procs : pc[p] \in InCS) => locked
    /\ ~locked => store = ser.store
    /\ \A i \in 1 .. Len(ser.log) :
          /\ ser.log[i].exc = ser.log[i].serial_exc
          /\ ser.log[i].ret = ser.log[i].serial_ret
    /\ \A i, j \in 1 .. Len(ser.log) :
          (/\ i < j
           /\ ser.log[i].op = ser.log[j].op
           /\ ser.log[i].exc = "none"
           /\ ser.log[j].exc = "none")
          => /\ ser.log[i].op \in {"create_task", "create_user"}
                   => ser.log[i].ret[1].id # ser.log[j].ret[1].id
             /\ ser.log[i].op = "create_user" => ser.log[i].username # ser.log[j].username
    /\ \A j \in 1 .. Len(ser.log) :
          ser.log[j].op = "create_user" =>
             LET earlier == \E i \in 1 .. j - 1 :
                               /\ ser.log[i].op = "create_user"
                               /\ ser.log[i].username = ser.log[j].username
             IN  ser.log[j].exc = IF earlier THEN "ValueError" ELSE "none"

\* C8 witness: two create_task calls succeeded, the second having been made
\* while the lock was held.
C8_Witness ==
    \E i, j \in 1 .. Len(ser.log) :
        /\ i < j
        /\ ser.log[i].op = "create_task"
        /\ ser.log[j].op = "create_task"
        /\ ser.log[i].exc = "none"
        /\ ser.log[j].exc = "none"
        /\ ser.log[j].waited

\* C8 witness of the other case: of two create_user calls with one username,
\* the second made while the lock was held, the second failed.
C8_WitnessUsers ==
    \E i, j \in 1 .. Len(ser.log) :
        /\ i < j
        /\ ser.log[i].op = "create_user"
        /\ ser.log[j].op = "create_user"
        /\ ser.log[i].username = ser.log[j].username
        /\ ser.log[j].waited
        /\ ser.log[j].exc = "ValueError"

====
